---- MODULE Spec2Model ----
(***************************************************************************)
(* Model of create-test-logo.py: a linear script that allocates a 200x200  *)
(* RGB canvas, draws a filled ellipse on it, saves it as test-logo.png and *)
(* prints a success line.  The script is run as a process; the file system *)
(* entry test-logo.png outlives the process, so the model lets the script  *)
(* be run again (Rerun) on the file the previous run left.                 *)
(*                                                                         *)
(* The imaging calls (Image.new, ImageColor.getrgb, ImageDraw.ellipse,     *)
(* Image.save with the PNG writer) are modelled by what Pillow does for    *)
(* the arguments the script passes: the ellipse by Pillow's integer        *)
(* quarter-ellipse rasterizer, the save by open("w+b"), chunk writes,      *)
(* close, and close-and-remove-if-created on failure.                      *)
(***************************************************************************)
EXTENDS Integers, Sequences, FiniteSets, TLC

VARIABLES
    pc,          \* the statement the process is at; "exited" once it has ended
    img,         \* the canvas `img`
    draw,        \* TRUE once `draw` is bound to the canvas
    file,        \* the directory entry test-logo.png
    fp,          \* the file object Image.save holds
    stdout,      \* lines the current process has written to standard output
    exitStatus,  \* exit status of the process, -1 while it runs
    run,         \* number of the current run of the script
    trace,       \* statements the current run has started, in order
    opened,      \* paths the current run has opened for writing
    raised,      \* the statement whose exception ended the current run, or ""
    preRun,      \* test-logo.png as it was when the current run started
    lastOk       \* what the last earlier successful run left: <<>> or <<Summary>>

vars == <<pc, img, draw, file, fp, stdout, exitStatus, run, trace, opened,
          raised, preRun, lastOk>>

\* Number of times the script is run in succession.
MaxRuns == 2

Abs(n) == IF n < 0 THEN -n ELSE n

----------------------------------------------------------------------------
(* Colours.  A colour string '#RRGGBB' is the sequence of its six hex      *)
(* digits; getrgb parses it into an (r, g, b) triple.                      *)

HexBlue == <<3, 11, 8, 2, 15, 6>>      \* '#3B82F6'
HexYellow == <<14, 10, 11, 3, 0, 8>>   \* '#EAB308'

getrgb(color) ==
    <<16 * color[1] + color[2], 16 * color[3] + color[4], 16 * color[5] + color[6]>>

\* A pixel of an RGB image is stored as one integer, the colour's bytes
\* in the order red, green, blue from the lowest up.
getink(rgb) == rgb[1] + 256 * rgb[2] + 65536 * rgb[3]

\* The (r, g, b) triple a stored pixel stands for.
unpack(p) == <<p % 256, (p \div 256) % 256, (p \div 65536) % 256>>

----------------------------------------------------------------------------
(* The canvas.                                                             *)

NoImage == [mode |-> "none", size |-> <<0, 0>>, px |-> <<>>]

\* Image.new allocating one row too many.
ImageNew_ExtraRow(mode, size, color) ==
    LET ink == getink(getrgb(color))
    IN  [mode |-> mode,
         size |-> size,
         px   |-> [y \in 0 .. size[2] |-> [x \in 0 .. size[1] - 1 |-> ink]]]

\* Image.new(mode, size, color): every pixel set to the parsed colour.
ImageNew(mode, size, color) ==
    LET ink == getink(getrgb(color))
    IN  [mode |-> mode,
         size |-> size,
         px   |-> [y \in 0 .. size[2] - 1 |-> [x \in 0 .. size[1] - 1 |-> ink]]]

----------------------------------------------------------------------------
(* draw.ellipse: the rasterizer traces one quarter of the ellipse with     *)
(* semi-axes a/2, b/2 in doubled coordinates (a = x1 - x0, b = y1 - y0),   *)
(* from (a, b % 2) to (a % 2, b), moving to whichever of the three         *)
(* neighbouring points lies closest to the curve, and fills each row       *)
(* between the mirrored outermost points.                                  *)

\* Deviation of the point (x, y) from the ellipse.
quarter_delta(a, b, x, y) == Abs(a * a * y * y + b * b * x * x - a * a * b * b)

\* The point after (cx, cy) on the quarter.
quarter_next(a, b, cx, cy) ==
    LET up   == quarter_delta(a, b, cx, cy + 2)
        diag == quarter_delta(a, b, cx - 2, cy + 2)
        left == quarter_delta(a, b, cx - 2, cy)
        n1   == IF cx > 1 /\ up > diag THEN <<cx - 2, cy + 2, diag>> ELSE <<cx, cy + 2, up>>
    IN  IF cx > 1 /\ n1[3] > left THEN <<cx - 2, cy>> ELSE <<n1[1], n1[2]>>

RECURSIVE quarter_from(_, _, _, _)
quarter_from(a, b, cx, cy) ==
    IF cx = a % 2 /\ cy = b
    THEN << <<cx, cy>> >>
    ELSE LET n == quarter_next(a, b, cx, cy)
         IN  << <<cx, cy>> >> \o quarter_from(a, b, n[1], n[2])

\* All points of the quarter, in the order they are produced.
quarter_points(a, b) ==
    IF a < 0 \/ b < 0 THEN <<>> ELSE quarter_from(a, b, a, b % 2)

\* The spans taken from the last (innermost) point of each row instead of
\* the first.
ellipse_spans_inner(a, b) ==
    LET pts  == quarter_points(a, b)
        rows == {pts[i][2] : i \in DOMAIN pts}
        r(y) == pts[CHOOSE i \in DOMAIN pts :
                        /\ pts[i][2] = y
                        /\ \A j \in DOMAIN pts : pts[j][2] = y => i >= j][1]
        l    == a % 2
    IN  UNION {
           (IF (l > 0 \/ l < r(y)) /\ y > 0 THEN {<<-r(y), y, -l>>} ELSE {})
             \cup (IF y > 0 THEN {<<l, y, r(y)>>} ELSE {})
             \cup (IF l > 0 \/ l < r(y) THEN {<<-r(y), -y, -l>>} ELSE {})
             \cup {<<l, -y, r(y)>>}
           : y \in rows}

\* The horizontal spans <<X0, Y, X1>> (doubled coordinates, relative to the
\* centre) of a filled ellipse: for each row of the quarter, r is the first
\* (outermost) point produced on it and l is the leftmost column a % 2.
ellipse_spans(a, b) ==
    LET pts  == quarter_points(a, b)
        rows == {pts[i][2] : i \in DOMAIN pts}
        r(y) == pts[CHOOSE i \in DOMAIN pts :
                        /\ pts[i][2] = y
                        /\ \A j \in DOMAIN pts : pts[j][2] = y => i <= j][1]
        l    == a % 2
    IN  IF a + b < 1 THEN {}
        ELSE UNION {
               (IF (l > 0 \/ l < r(y)) /\ y > 0 THEN {<<-r(y), y, -l>>} ELSE {})
                 \cup (IF y > 0 THEN {<<l, y, r(y)>>} ELSE {})
                 \cup (IF l > 0 \/ l < r(y) THEN {<<-r(y), -y, -l>>} ELSE {})
                 \cup {<<l, -y, r(y)>>}
               : y \in rows}

\* Each line drawn one pixel too far to the right.
hlines_wide(box) ==
    LET x0 == box[1]
        y0 == box[2]
        a  == box[3] - box[1]
        b  == box[4] - box[2]
    IN  { <<x0 + (s[1] + a) \div 2, y0 + (s[2] + b) \div 2, x0 + (s[3] + a) \div 2 + 1>>
          : s \in ellipse_spans(a, b) }

\* The horizontal lines <<xa, y, xb>> drawn for the box: each span, placed
\* in the box, is the line from x0 + (X0 + a) / 2 to x0 + (X1 + a) / 2 on
\* row y0 + (Y + b) / 2.
hlines(box) ==
    LET x0 == box[1]
        y0 == box[2]
        a  == box[3] - box[1]
        b  == box[4] - box[2]
    IN  { <<x0 + (s[1] + a) \div 2, y0 + (s[2] + b) \div 2, x0 + (s[3] + a) \div 2>>
          : s \in ellipse_spans(a, b) }

\* Only the leftmost and the rightmost pixel of each row drawn: the ellipse
\* is left unfilled.
ellipse_unfilled(im, box, color) ==
    LET lines == hlines(box)
        ink   == getink(getrgb(color))
    IN  [im EXCEPT !.px =
            [y \in DOMAIN im.px |->
                LET row == {h \in lines : h[2] = y}
                IN  [x \in DOMAIN im.px[y] |->
                        IF /\ \E h \in row : h[1] <= x /\ x <= h[3]
                           /\ (\A h \in row : x <= h[1]) \/ (\A h \in row : x >= h[3])
                        THEN ink ELSE im.px[y][x]]]]

\* draw.ellipse(box, fill=color) on the canvas: every pixel of the canvas on
\* one of the lines gets the parsed colour (a line is clipped to the canvas);
\* the rest of the canvas is kept.
ellipse(im, box, color) ==
    LET lines == hlines(box)
        ink   == getink(getrgb(color))
    IN  [im EXCEPT !.px =
            [y \in DOMAIN im.px |->
                LET row == {h \in lines : h[2] = y}
                IN  [x \in DOMAIN im.px[y] |->
                        IF \E h \in row : h[1] <= x /\ x <= h[3]
                        THEN ink ELSE im.px[y][x]]]]

----------------------------------------------------------------------------
(* The PNG file.  A file's content is the sequence of chunks written to    *)
(* it; the encoder writes the signature, the header (mode and size), the   *)
(* image data (the rows of the canvas) and the end marker, in that order.  *)

Chunk(type, mode, size, rows) == [type |-> type, mode |-> mode, size |-> size, rows |-> rows]

PngEncode(im) ==
    << Chunk("sig", "", <<0, 0>>, <<>>),
       Chunk("IHDR", im.mode, im.size, <<>>),
       Chunk("IDAT", "", <<0, 0>>, im.px),
       Chunk("IEND", "", <<0, 0>>, <<>>) >>

\* What a PNG reader makes of a content: the image, or NoImage when the
\* content is not a complete PNG whose data has the size its header states.
PngDecode(content) ==
    IF /\ Len(content) = 4
       /\ content[1].type = "sig"
       /\ content[2].type = "IHDR"
       /\ content[3].type = "IDAT"
       /\ content[4].type = "IEND"
       /\ DOMAIN content[3].rows = 0 .. content[2].size[2] - 1
       /\ \A y \in DOMAIN content[3].rows :
              DOMAIN content[3].rows[y] = 0 .. content[2].size[1] - 1
    THEN [mode |-> content[2].mode, size |-> content[2].size, px |-> content[3].rows]
    ELSE NoImage

\* The colour of pixel (x, y) of an image, <<>> where it has no such pixel.
getpixel(im, x, y) ==
    IF y \in DOMAIN im.px
    THEN (IF x \in DOMAIN im.px[y] THEN unpack(im.px[y][x]) ELSE <<>>)
    ELSE <<>>

Absent == [exists |-> FALSE, content |-> <<>>]

\* Files that may lie at test-logo.png before the first run: none, a file
\* that is no PNG, and a PNG of another picture.
OldJunk == [exists |-> TRUE, content |-> << Chunk("junk", "", <<0, 0>>, <<>>) >>]
OldPng == [exists |-> TRUE,
           content |-> PngEncode(ImageNew("RGB", <<3, 2>>, <<15, 15, 15, 15, 15, 15>>))]
InitialFiles == {Absent, OldJunk, OldPng}

Closed == [open |-> FALSE, created |-> FALSE]

\* Dimensions and centre and corner colours of the picture in a file.
Summary(f) ==
    LET d == PngDecode(f.content)
    IN  [size   |-> d.size,
         centre |-> getpixel(d, 100, 100),
         corner |-> <<getpixel(d, 0, 0), getpixel(d, 199, 199)>>]

SuccessLine == "Test logo created successfully"

----------------------------------------------------------------------------
(* The process.  Statements run in program order; an exception is never    *)
(* caught, so a failing statement ends the process with status 1.          *)

Init ==
    /\ pc = "import"
    /\ img = NoImage
    /\ draw = FALSE
    /\ file \in InitialFiles
    /\ fp = Closed
    /\ stdout = <<>>
    /\ exitStatus = -1
    /\ run = 1
    /\ trace = <<>>
    /\ opened = <<>>
    /\ raised = ""
    /\ preRun = file
    /\ lastOk = <<>>

\* The exception is caught at top level and the process exits normally.
Raise_ExitZero(stmt) ==
    /\ trace' = Append(trace, stmt)
    /\ raised' = stmt
    /\ pc' = "exited"
    /\ exitStatus' = 0

\* An uncaught exception in statement `stmt`: traceback, exit status 1.
Raise(stmt) ==
    /\ trace' = Append(trace, stmt)
    /\ raised' = stmt
    /\ pc' = "exited"
    /\ exitStatus' = 1

\* from PIL import Image, ImageDraw
Import ==
    /\ pc = "import"
    /\ pc' = "new"
    /\ trace' = Append(trace, "import")
    /\ UNCHANGED <<img, draw, file, fp, stdout, exitStatus, run, opened, raised, preRun, lastOk>>

ImportFail ==
    /\ pc = "import"
    /\ Raise("import")
    /\ UNCHANGED <<img, draw, file, fp, stdout, run, opened, preRun, lastOk>>

\* img = Image.new('RGB', (200, 200), color='#3B82F6')
New ==
    /\ pc = "new"
    /\ img' = ImageNew("RGB", <<200, 200>>, HexBlue)
    /\ pc' = "Draw"
    /\ trace' = Append(trace, "new")
    /\ UNCHANGED <<draw, file, fp, stdout, exitStatus, run, opened, raised, preRun, lastOk>>

\* The allocation of the canvas fails (MemoryError).
NewFail ==
    /\ pc = "new"
    /\ Raise("new")
    /\ UNCHANGED <<img, draw, file, fp, stdout, run, opened, preRun, lastOk>>

\* draw = ImageDraw.Draw(img)
Draw ==
    /\ pc = "Draw"
    /\ draw' = TRUE
    /\ pc' = "ellipse"
    /\ trace' = Append(trace, "Draw")
    /\ UNCHANGED <<img, file, fp, stdout, exitStatus, run, opened, raised, preRun, lastOk>>

\* draw.ellipse([50, 50, 150, 150], fill='#EAB308')
Ellipse ==
    /\ pc = "ellipse"
    /\ draw
    /\ img' = ellipse(img, <<50, 50, 150, 150>>, HexYellow)
    /\ pc' = "save"
    /\ trace' = Append(trace, "ellipse")
    /\ UNCHANGED <<draw, file, fp, stdout, exitStatus, run, opened, raised, preRun, lastOk>>

\* The draw fails (MemoryError) before it touches the canvas.
EllipseFail ==
    /\ pc = "ellipse"
    /\ Raise("ellipse")
    /\ UNCHANGED <<img, draw, file, fp, stdout, run, opened, preRun, lastOk>>

\* The file opened without truncation ("r+b" when it exists).
SaveOpen_NoTruncate ==
    /\ pc = "save"
    /\ fp' = [open |-> TRUE, created |-> ~file.exists]
    /\ file' = [exists |-> TRUE, content |-> file.content]
    /\ opened' = Append(opened, "test-logo.png")
    /\ pc' = "save_write"
    /\ trace' = Append(trace, "save")
    /\ UNCHANGED <<img, draw, stdout, exitStatus, run, raised, preRun, lastOk>>

\* img.save('test-logo.png'), first part: the file is opened "w+b", which
\* creates it or empties the one that is there.
SaveOpen ==
    /\ pc = "save"
    /\ fp' = [open |-> TRUE, created |-> ~file.exists]
    /\ file' = [exists |-> TRUE, content |-> <<>>]
    /\ opened' = Append(opened, "test-logo.png")
    /\ pc' = "save_write"
    /\ trace' = Append(trace, "save")
    /\ UNCHANGED <<img, draw, stdout, exitStatus, run, raised, preRun, lastOk>>

\* The open fails (permission denied, missing directory): OSError.
SaveOpenFail ==
    /\ pc = "save"
    /\ Raise("save")
    /\ UNCHANGED <<img, draw, file, fp, stdout, run, opened, preRun, lastOk>>

\* img.save, second part: the encoder writes the next chunk of the image.
SaveWrite ==
    /\ pc = "save_write"
    /\ fp.open
    /\ Len(file.content) < Len(PngEncode(img))
    /\ file' = [file EXCEPT !.content =
                    Append(@, PngEncode(img)[Len(file.content) + 1])]
    /\ UNCHANGED <<pc, img, draw, fp, stdout, exitStatus, run, trace, opened, raised, preRun, lastOk>>

\* The file removed after any failed save.
AfterFailedSave_Remove(f, handle) == Absent

\* The file after a failed save: removed if this save created it, else as
\* the failed write left it.
AfterFailedSave(f, handle) == IF handle.created THEN Absent ELSE f

\* The write error is swallowed and the script carries on.
SaveWriteFail_Swallowed ==
    /\ pc = "save_write"
    /\ fp.open
    /\ Len(file.content) < Len(PngEncode(img))
    /\ fp' = Closed
    /\ file' = AfterFailedSave(file, fp)
    /\ pc' = "print"
    /\ UNCHANGED <<img, draw, stdout, exitStatus, run, trace, opened, raised, preRun, lastOk>>

\* The write error makes the script try the save again.
SaveWriteFail_Retry ==
    /\ pc = "save_write"
    /\ fp.open
    /\ Len(file.content) < Len(PngEncode(img))
    /\ Len(opened) < 2
    /\ fp' = Closed
    /\ file' = AfterFailedSave(file, fp)
    /\ pc' = "save"
    /\ raised' = "save"
    /\ UNCHANGED <<img, draw, stdout, exitStatus, run, trace, opened, preRun, lastOk>>

\* The write error leaves the file object open.
SaveWriteFail_LeaveOpen ==
    /\ pc = "save_write"
    /\ fp.open
    /\ Len(file.content) < Len(PngEncode(img))
    /\ pc' = "exited"
    /\ exitStatus' = 1
    /\ raised' = "save"
    /\ UNCHANGED <<img, draw, file, fp, stdout, run, trace, opened, preRun, lastOk>>

\* A write fails (disk full): the file is closed, and removed if this save
\* created it; the OSError ends the process.
SaveWriteFail ==
    /\ pc = "save_write"
    /\ fp.open
    /\ Len(file.content) < Len(PngEncode(img))
    /\ fp' = Closed
    /\ file' = AfterFailedSave(file, fp)
    /\ pc' = "exited"
    /\ exitStatus' = 1
    /\ raised' = "save"
    /\ UNCHANGED <<img, draw, stdout, run, trace, opened, preRun, lastOk>>

\* img.save, last part: everything is written and the file is closed.
SaveClose ==
    /\ pc = "save_write"
    /\ fp.open
    /\ Len(file.content) = Len(PngEncode(img))
    /\ fp' = Closed
    /\ pc' = "print"
    /\ UNCHANGED <<img, draw, file, stdout, exitStatus, run, trace, opened, raised, preRun, lastOk>>

\* print("Test logo created successfully"), the last statement: the
\* process ends with status 0.
PrintLine ==
    /\ pc = "print"
    /\ stdout' = Append(stdout, SuccessLine)
    /\ trace' = Append(trace, "print")
    /\ pc' = "exited"
    /\ exitStatus' = 0
    /\ UNCHANGED <<img, draw, file, fp, run, opened, raised, preRun, lastOk>>

\* Standard output cannot be written (OSError).
PrintFail ==
    /\ pc = "print"
    /\ Raise("print")
    /\ UNCHANGED <<img, draw, file, fp, stdout, run, opened, preRun, lastOk>>

\* The script is run again: a new process, the same directory.
Rerun ==
    /\ pc = "exited"
    /\ run < MaxRuns
    /\ run' = run + 1
    /\ pc' = "import"
    /\ img' = NoImage
    /\ draw' = FALSE
    /\ fp' = Closed
    /\ stdout' = <<>>
    /\ exitStatus' = -1
    /\ trace' = <<>>
    /\ opened' = <<>>
    /\ raised' = ""
    /\ preRun' = file
    /\ lastOk' = IF exitStatus = 0 THEN <<Summary(file)>> ELSE lastOk
    /\ UNCHANGED file

Next ==
    \/ Import
    \/ ImportFail
    \/ New
    \/ NewFail
    \/ Draw
    \/ Ellipse
    \/ EllipseFail
    \/ SaveOpen
    \/ SaveOpenFail
    \/ SaveWrite
    \/ SaveWriteFail
    \/ SaveClose
    \/ PrintLine
    \/ PrintFail
    \/ Rerun

Spec == Init /\ [][Next]_vars

----------------------------------------------------------------------------
(* Properties.                                                             *)

Rgb3B82F6 == <<59, 130, 246>>
RgbEAB308 == <<234, 179, 8>>

Succeeded == pc = "exited" /\ exitStatus = 0

\* The picture a PNG reader gets from test-logo.png.
Decoded == PngDecode(file.content)

OutsideBox(x, y) == x < 50 \/ x > 150 \/ y < 50 \/ y > 150

\* C1: after a successful run every pixel of the written image outside the
\* circle's bounding box (x or y below 50 or above 150), the corners (0,0)
\* and (199,199) among them, has the colour (59, 130, 246).
C1_BackgroundOutsideBox ==
    Succeeded =>
        LET d == Decoded
        IN  \A x \in 0 .. 199, y \in 0 .. 199 :
                OutsideBox(x, y) => getpixel(d, x, y) = Rgb3B82F6

C1_Witness ==
    /\ Succeeded
    /\ preRun = OldPng
    /\ getpixel(Decoded, 0, 0) = Rgb3B82F6
    /\ getpixel(Decoded, 199, 199) = Rgb3B82F6
    /\ getpixel(Decoded, 151, 100) = Rgb3B82F6

\* C2: after a successful run the pixel at the centre (100, 100) of the
\* written image has the colour (234, 179, 8).
C2_CentreForeground ==
    Succeeded => getpixel(Decoded, 100, 100) = RgbEAB308

C2_Witness ==
    /\ Succeeded
    /\ preRun = OldJunk
    /\ getpixel(Decoded, 100, 100) = RgbEAB308

\* C3: the success line is on standard output at most once, and only when
\* the save has written the complete image and closed the file; a run in
\* which a statement raised has printed nothing.
C3_LineOnlyAfterWrite ==
    /\ Len(stdout) <= 1
    /\ stdout # <<>> =>
          /\ stdout = <<SuccessLine>>
          /\ ~fp.open
          /\ file = [exists |-> TRUE, content |-> PngEncode(img)]
          /\ raised = ""
    /\ raised # "" => stdout = <<>>
    /\ exitStatus # 0 => stdout = <<>>

C3_Witness ==
    /\ stdout = <<SuccessLine>>
    /\ Succeeded
    /\ run = 2
    /\ preRun.exists

\* C4: when the save fails, the process has ended with a non-zero status
\* at that statement: the save ran once, only test-logo.png was ever opened,
\* and nothing was printed.
C4_SaveFailureIsFatal ==
    raised = "save" =>
        /\ pc = "exited"
        /\ exitStatus = 1
        /\ trace = <<"import", "new", "Draw", "ellipse", "save">>
        /\ Len(opened) <= 1
        /\ \A i \in DOMAIN opened : opened[i] = "test-logo.png"
        /\ stdout = <<>>
        /\ ~fp.open

C4_Witness ==
    /\ raised = "save"
    /\ pc = "exited"
    /\ opened = <<"test-logo.png">>
    /\ file.exists
    /\ Len(file.content) = 2

\* C5: a successful run leaves exactly the encoded canvas at test-logo.png
\* whatever was there before, and the picture it leaves has the dimensions
\* and the centre and corner colours that the last earlier successful run
\* left.
C5_IdempotentOverwrite ==
    Succeeded =>
        /\ file = [exists |-> TRUE, content |-> PngEncode(img)]
        /\ lastOk # <<>> => Summary(file) = lastOk[1]

C5_Witness ==
    /\ Succeeded
    /\ run = 2
    /\ lastOk # <<>>
    /\ preRun.exists
    /\ Summary(file) = lastOk[1]
    /\ Summary(file).size = <<200, 200>>

\* C6: from its allocation on the canvas is 200 wide and 200 high (also
\* after the draw and during and after the save), and the file a successful
\* run leaves decodes to a 200 by 200 picture.
C6_Dimensions ==
    /\ pc \in {"Draw", "ellipse", "save", "save_write", "print"} \/ img # NoImage =>
          /\ img.size = <<200, 200>>
          /\ DOMAIN img.px = 0 .. 199
          /\ \A y \in DOMAIN img.px : DOMAIN img.px[y] = 0 .. 199
    /\ Succeeded => Decoded.size = <<200, 200>>

C6_Witness ==
    /\ Succeeded
    /\ img.size = <<200, 200>>
    /\ Decoded.size = <<200, 200>>
    /\ preRun = OldPng

ProgramOrder == <<"import", "new", "Draw", "ellipse", "save", "print">>

IsPrefix(s, t) == Len(s) <= Len(t) /\ \A i \in DOMAIN s : s[i] = t[i]

\* The statements started so far are an initial part of the program, each
\* once; the status is 0 exactly when every statement ran and none raised,
\* and 1 when one raised.
C7_Path ==
    /\ IsPrefix(trace, ProgramOrder)
    /\ pc # "exited" => exitStatus = -1 /\ raised = ""
    /\ pc = "exited" =>
          /\ exitStatus \in {0, 1}
          /\ exitStatus = 0 <=> (trace = ProgramOrder /\ raised = "")
          /\ raised \in {"new", "save"} => exitStatus = 1

\* The number of steps the current run can still take.
StepsLeft ==
    CASE pc = "import"     -> 11
      [] pc = "new"        -> 10
      [] pc = "Draw"       -> 9
      [] pc = "ellipse"    -> 8
      [] pc = "save"       -> 7
      [] pc = "save_write" -> 2 + Len(PngEncode(img)) - Len(file.content)
      [] pc = "print"      -> 1
      [] OTHER             -> 0

\* A running process has a statement it can execute.
CanStep ==
    /\ pc \in {"import", "new", "Draw", "ellipse", "save", "save_write", "print"}
    /\ pc = "ellipse" => draw
    /\ pc = "save_write" => fp.open /\ Len(file.content) <= Len(PngEncode(img))

\* C7: every run ends (a running process can always take a step, and each
\* step leaves it fewer steps to take), and it runs the statements in
\* program order, each at most once, with exit status 0 exactly when all of
\* them succeeded and non-zero when the allocation or the save failed.
C7_OnePathAndTerminates ==
    /\ [](C7_Path /\ (pc # "exited" => StepsLeft > 0 /\ CanStep))
    /\ [][pc # "exited" => StepsLeft' < StepsLeft]_vars

C7_Witness ==
    /\ pc = "exited"
    /\ exitStatus = 1
    /\ raised = "save"
    /\ trace = <<"import", "new", "Draw", "ellipse", "save">>
    /\ run = 2

\* Pixel (x, y) taken as the point (x, y): within the circle of radius 50
\* about (100, 100), the ellipse inscribed in the box (50,50)-(150,150).
InsideEllipse(x, y) == (x - 100) * (x - 100) + (y - 100) * (y - 100) <= 50 * 50

\* Pixel (x, y) taken as the square [x, x+1] x [y, y+1] with its centre at
\* (x + 1/2, y + 1/2): within the ellipse inscribed in the box of the pixels
\* 50..150, of radius 50 1/2 about (100 1/2, 100 1/2).
InsideEllipseOfPixels(x, y) ==
    4 * ((x - 100) * (x - 100) + (y - 100) * (y - 100)) <= 101 * 101

DrawStep == pc = "ellipse" /\ pc' = "save"

\* C8 as stated: the draw step gives the fill colour to exactly the pixels
\* whose centre is within the inscribed ellipse (under either reading of a
\* pixel's centre) and leaves every other pixel as it was.
C8_ExactlyTheEllipse ==
    [][DrawStep =>
          \/ \A x \in 0 .. 199, y \in 0 .. 199 :
                 getpixel(img', x, y) = IF InsideEllipse(x, y) THEN RgbEAB308 ELSE getpixel(img, x, y)
          \/ \A x \in 0 .. 199, y \in 0 .. 199 :
                 getpixel(img', x, y) = IF InsideEllipseOfPixels(x, y) THEN RgbEAB308
                                 ELSE getpixel(img, x, y)
      ]_vars

\* C8, amended: the draw step gives the fill colour to every pixel within
\* the circle of radius 50 about (100, 100), changes no pixel outside the
\* circle of radius 50 1/2 and none outside the bounding box, and gives any
\* pixel it does change the fill colour; it keeps the canvas's mode and size.
C8_EllipseUpToEdgePixels ==
    [][DrawStep =>
          /\ img'.mode = img.mode
          /\ img'.size = img.size
          /\ \A x \in 0 .. 199, y \in 0 .. 199 :
                /\ InsideEllipse(x, y) => getpixel(img', x, y) = RgbEAB308
                /\ ~InsideEllipseOfPixels(x, y) => getpixel(img', x, y) = getpixel(img, x, y)
                /\ OutsideBox(x, y) => getpixel(img', x, y) = getpixel(img, x, y)
                /\ getpixel(img', x, y) \in {RgbEAB308, getpixel(img, x, y)}
      ]_vars

\* After the draw: the centre is filled, so is the edge pixel (50, 93),
\* which lies outside the circle of radius 50, and (58, 72), which lies
\* within the circle of radius 50 1/2, is not.
C8_Witness ==
    /\ pc = "save"
    /\ getpixel(img, 100, 100) = RgbEAB308
    /\ getpixel(img, 50, 93) = RgbEAB308
    /\ ~InsideEllipse(50, 93)
    /\ getpixel(img, 58, 72) = Rgb3B82F6
    /\ InsideEllipseOfPixels(58, 72)
    /\ getpixel(img, 0, 0) = Rgb3B82F6

\* C9: the file object is open only while the save is writing: not before
\* the save, not at the print statement and not once the process has ended,
\* whether the save completed or failed.
C9_FileOpenOnlyDuringSave ==
    /\ fp.open => pc = "save_write"
    /\ pc \in {"import", "new", "Draw", "ellipse", "save", "print", "exited"} => ~fp.open
    /\ Len(opened) <= 1

C9_Witness ==
    /\ pc = "exited"
    /\ raised = "save"
    /\ opened = <<"test-logo.png">>
    /\ file.exists
    /\ ~fp.open

\* The content is an initial part of the encoded canvas, short of the whole.
IsPartial(content) ==
    /\ Len(content) < Len(PngEncode(img))
    /\ IsPrefix(content, PngEncode(img))

\* The file holds the whole encoded canvas, a 200 by 200 picture.
IsComplete(f) ==
    /\ f = [exists |-> TRUE, content |-> PngEncode(img)]
    /\ PngDecode(f.content).size = <<200, 200>>

\* C10 as stated: the path always holds what it held before the run, or no
\* file, or the complete encoded image; after a failed save a file that was
\* there before the run has its previous content.
C10_AllOrNothing ==
    /\ file = preRun \/ ~file.exists \/ IsComplete(file)
    /\ (raised = "save" /\ preRun.exists) => file = preRun

\* C10, amended: the save is not all-or-nothing.  The path holds what it
\* held before the run until the save opens it; from then on it holds an
\* initial part of the encoded image (empty at first) or the whole of it, or
\* no file.  After a save that failed once the file was open, a file that
\* was there before the run is still there but holds only an initial part
\* of the encoded image; after a save that failed at the open it is as it
\* was.
C10_TruncatesThenWrites ==
    /\ opened = <<>> => file = preRun
    /\ \/ file = preRun
       \/ ~file.exists
       \/ file.exists /\ IsPartial(file.content)
       \/ IsComplete(file)
    /\ (raised = "save" /\ preRun.exists) =>
          /\ file.exists
          /\ opened # <<>> => IsPartial(file.content)
          /\ opened = <<>> => file = preRun

C10_Witness ==
    /\ raised = "save"
    /\ preRun = OldPng
    /\ file.exists
    /\ file # preRun
    /\ file.content = <<>>

====
